---- MODULE Spec2Model ----
(***************************************************************************)
(* Model of the ai_debates Anchor program (programs/ai-debates/src/lib.rs):*)
(* the contest ("debate") lifecycle, the escrow ledger, round aggregation, *)
(* settlement and the betting pool.                                        *)
(*                                                                         *)
(* One action per instruction handler.  An instruction that returns Err or *)
(* aborts leaves every account as it was (the transaction is rolled back); *)
(* the variable `last` records which instruction ran and what it returned. *)
(*                                                                         *)
(* Integer widths.  TLC's integers are 32 bits wide, so the program's u64  *)
(* is modelled by an unsigned word of U64_BITS bits, its u32 by U32_BITS   *)
(* bits and its u8 by U8_BITS bits; arithmetic the source does in u128 is  *)
(* exact (unbounded) here.  The source uses the plain operators + - * on   *)
(* these words: with overflow checks compiled in they panic on overflow,   *)
(* without them they wrap.  Which one a build does is fixed when the       *)
(* program is built: `overflow_checks` is chosen in Init and never changes.*)
(*                                                                         *)
(* Fields written once and never read by any handler (topic, pro_bot,      *)
(* con_bot, created_at, bump, bet.debate, bet.bettor) are left out, and so *)
(* is the rent the payer of an `init` account pays.                        *)
(***************************************************************************)
EXTENDS Integers, Sequences, FiniteSets, TLC

VARIABLES overflow_checks, platform, debate, bet, user, lamports, last

vars == <<overflow_checks, platform, debate, bet, user, lamports, last>>

\* Everything the program stores: all variables except the call record.
accounts == <<overflow_checks, platform, debate, bet, user, lamports>>

----------------------------------------------------------------------------
\* Widths of the modelled machine words.
U64_BITS == 24
U32_BITS == 3
U8_BITS == 2

U64_MODULUS == 2 ^ U64_BITS
U64_MAX == U64_MODULUS - 1
U32_MODULUS == 2 ^ U32_BITS
U8_MODULUS == 2 ^ U8_BITS

\* Program constants.
MAX_FEE_BPS == 1000
BPS_DENOMINATOR == 10000
MAX_ROUND == 3

\* Bound of the model: the largest sum of vote totals explored.
MaxVotes == 1

----------------------------------------------------------------------------
\* Identities.
DebateIds == {"d1", "d2"}
Bettors == {"alice", "bob"}
Signers == {"admin", "alice", "bob"}
Positions == {"Pro", "Con"}
Times == {1, 2}

\* The escrow PDA of a debate: seeds = [b"escrow", debate.key()].
Escrow(d) == IF d = "d1" THEN "escrow_d1" ELSE "escrow_d2"

Accounts == Signers \cup {"treasury"} \cup {Escrow(d) : d \in DebateIds}

\* Option<T>.
None == << >>
Some(x) == << x >>

\* An account that has not been created.
NoAccount == [exists |-> FALSE]

----------------------------------------------------------------------------
\* floor(x * m / BPS_DENOMINATOR), exact, as the source computes it in u128.
\* Written as q*m + floor(r*m/10000) with x = q*10000 + r so that no
\* intermediate exceeds TLC's integers.
MulDivBps(x, m) ==
    (x \div BPS_DENOMINATOR) * m + ((x % BPS_DENOMINATOR) * m) \div BPS_DENOMINATOR

\* `as u64`: truncation to the low word.
AsU64(x) == x % U64_MODULUS

\* a + b, a - b, a * b on a word of modulus m when the build wraps.
WrapAdd(a, b, m) == (a + b) % m
WrapSub(a, b, m) == (a - b + m) % m
WrapMul(a, b, m) == (a * b) % m

\* Whether a + b, a - b, a * b leaves the word (a panic when checks are on).
AddOverflows(a, b, m) == a + b >= m
SubOverflows(a, b) == b > a
MulOverflows(a, b, m) == a * b >= m

----------------------------------------------------------------------------
\* The value-transfer primitive, anchor_lang::system_program::transfer: it
\* moves `amount` from `from` to `to`, or fails and moves nothing when `from`
\* holds less than `amount` (or `to` cannot hold the sum).
CanTransfer(l, from, to, amount) ==
    /\ l[from] >= amount
    /\ (from = to \/ l[to] + amount <= U64_MAX)

Transfer(l, from, to, amount) ==
    [l EXCEPT ![from] = @ - amount, ![to] = @ + amount]

\* `**acct.try_borrow_mut_lamports()? -= x` and `+= x` when they do not panic.
Debit(l, acct, x) == [l EXCEPT ![acct] = WrapSub(@, x, U64_MODULUS)]
Credit(l, acct, x) == [l EXCEPT ![acct] = WrapAdd(@, x, U64_MODULUS)]

----------------------------------------------------------------------------
\* The record of the instruction that ran last and of what it returned: a
\* successful instruction leaves its name, its signer and its debate; a failed
\* one is rolled back and leaves only its name and its error.
Call(op, signer, d, result) ==
    IF result = "Ok"
    THEN [op |-> op, signer |-> signer, debate |-> d, result |-> result]
    ELSE [op |-> op, signer |-> "-", debate |-> "-", result |-> result]

\* Err(..) or a panic: the instruction has no effect on any account.
Fail(call) ==
    /\ last' = call
    /\ UNCHANGED accounts

\* Inputs the environment hands to the instructions.
FeeChoices == {1000}
StakeChoices == {0, 7}
BetChoices == {0, 17, 50}
VoteChoices == 0 .. MaxVotes
RoundChoices == {0, 1, MAX_ROUND, MAX_ROUND + 1}
Owners == {"alice", "bob"}
InitialFunds == 45

\* The platform as `initialize` leaves it, the registered users as
\* `register_user` leaves them, and the funded wallets.
Init ==
    /\ overflow_checks \in BOOLEAN
    /\ \E fee \in FeeChoices :
          /\ fee <= MAX_FEE_BPS
          /\ platform = [authority |-> "admin", treasury |-> "treasury",
                         platform_fee_bps |-> fee, total_debates |-> 0]
    /\ debate = [d \in DebateIds |-> NoAccount]
    /\ bet = [k \in DebateIds \X Bettors |-> NoAccount]
    /\ user = [b \in Bettors |-> [total_wagered |-> 0, total_won |-> 0]]
    /\ lamports = [a \in Accounts |-> IF a \in Owners THEN InitialFunds ELSE 0]
    /\ last = Call("initialize", "admin", "-", "Ok")

----------------------------------------------------------------------------
\* The checks the instructions make, one definition per check.  Each is
\* preceded by the same check with a plausible slip in it (the check left
\* out, or made against the wrong status), which the properties below must
\* tell apart from the check as the source makes it.

\* #[account(has_one = authority)] on `platform` in StartDebate and
\* SubmitRoundResult: the signer is the platform's stored authority.
HasOneAuthority_missing(authority) == TRUE
HasOneAuthority(authority) == platform.authority = authority

\* require!(debate.status == DebateStatus::Pending) of start_debate.
StartAllowed_unchecked(deb) == TRUE
StartAllowed_not_completed(deb) == deb.status # "Completed"
StartAllowed(deb) == deb.status = "Pending"

\* require!(debate.status == DebateStatus::InProgress) of settle_debate.
SettleAllowed_unchecked(deb) == TRUE
SettleAllowed_not_pending(deb) == deb.status # "Pending"
SettleAllowed(deb) == deb.status = "InProgress"

\* #[account(init, seeds = [b"bet", debate, bettor])] of PlaceBet: creating
\* the bet account fails when it exists.
BetInit_if_needed(d, bettor) == TRUE
BetInit(d, bettor) == bet[<<d, bettor>>] = NoAccount

\* require!(debate.status == DebateStatus::Pending) of place_bet.
BettingOpen_until_completed(deb) == deb.status # "Completed"
BettingOpen(deb) == deb.status = "Pending"

\* require!(debate.status == DebateStatus::Completed) of claim_bet.
ClaimAllowed(deb) == deb.status = "Completed"

\* require!(!bet.settled) of claim_bet.
NotSettled_unchecked(b) == TRUE
NotSettled(b) == ~b.settled

\* `if bet.side == winner` of claim_bet, the winner being the debate's.
BetWon_always(b, deb) == TRUE
BetWon(b, deb) == b.side = deb.winner[1]

----------------------------------------------------------------------------
\* create_debate: `init` of the debate PDA, the stake check, both stake
\* transfers into the escrow PDA (seeds-constrained), total_debates += 1.
create_debate(d, pro_owner, con_owner, stake_amount) ==
    LET call(r) == Call("create_debate", pro_owner, d, r)
        l1 == Transfer(lamports, pro_owner, Escrow(d), stake_amount)
        l2 == Transfer(l1, con_owner, Escrow(d), stake_amount)
    IN  IF debate[d] # NoAccount THEN Fail(call("AccountAlreadyInUse"))
        ELSE IF ~(stake_amount > 0) THEN Fail(call("InvalidStake"))
        ELSE IF ~CanTransfer(lamports, pro_owner, Escrow(d), stake_amount)
            THEN Fail(call("InsufficientFunds"))
        ELSE IF ~CanTransfer(l1, con_owner, Escrow(d), stake_amount)
            THEN Fail(call("InsufficientFunds"))
        ELSE IF overflow_checks
                /\ AddOverflows(platform.total_debates, 1, U64_MODULUS)
            THEN Fail(call("Panic"))
        ELSE
            /\ debate' = [debate EXCEPT ![d] =
                    [status |-> "Pending",
                     stake_amount |-> stake_amount,
                     total_pro_votes |-> 0,
                     total_con_votes |-> 0,
                     pro_rounds_won |-> 0,
                     con_rounds_won |-> 0,
                     winner |-> None,
                     started_at |-> None,
                     completed_at |-> None]]
            /\ lamports' = l2
            /\ platform' = [platform EXCEPT !.total_debates =
                                WrapAdd(@, 1, U64_MODULUS)]
            /\ last' = call("Ok")
            /\ UNCHANGED <<overflow_checks, bet, user>>

\* start_debate: StartDebate requires platform.authority == authority
\* (has_one); the handler requires Pending and stamps started_at.
start_debate(authority, d, now) ==
    LET call(r) == Call("start_debate", authority, d, r)
    IN  IF debate[d] = NoAccount THEN Fail(call("AccountNotInitialized"))
        ELSE IF ~HasOneAuthority(authority) THEN Fail(call("ConstraintHasOne"))
        ELSE IF ~StartAllowed(debate[d]) THEN Fail(call("InvalidDebateStatus"))
        ELSE
            /\ debate' = [debate EXCEPT ![d].status = "InProgress",
                                        ![d].started_at = Some(now)]
            /\ last' = call("Ok")
            /\ UNCHANGED <<overflow_checks, platform, bet, user, lamports>>

\* submit_round_result: SubmitRoundResult requires the platform authority
\* (has_one); the handler checks the round number and the status, adds the
\* tallies to the u32 totals and bumps the u8 counter of the side with
\* strictly more votes.  It keeps no record of the rounds already reported.
submit_round_result(authority, d, round, pro_votes, con_votes) ==
    LET call(r) == Call("submit_round_result", authority, d, r)
        deb == debate[d]
        pro_wins == pro_votes > con_votes
        con_wins == con_votes > pro_votes
        panics ==
            \/ AddOverflows(deb.total_pro_votes, pro_votes, U32_MODULUS)
            \/ AddOverflows(deb.total_con_votes, con_votes, U32_MODULUS)
            \/ pro_wins /\ AddOverflows(deb.pro_rounds_won, 1, U8_MODULUS)
            \/ con_wins /\ AddOverflows(deb.con_rounds_won, 1, U8_MODULUS)
    IN  IF deb = NoAccount THEN Fail(call("AccountNotInitialized"))
        ELSE IF ~HasOneAuthority(authority) THEN Fail(call("ConstraintHasOne"))
        ELSE IF ~(round >= 1 /\ round <= MAX_ROUND) THEN Fail(call("InvalidRound"))
        ELSE IF deb.status # "InProgress" THEN Fail(call("InvalidDebateStatus"))
        ELSE IF overflow_checks /\ panics THEN Fail(call("Panic"))
        ELSE
            /\ debate' = [debate EXCEPT
                  ![d].total_pro_votes = WrapAdd(@, pro_votes, U32_MODULUS),
                  ![d].total_con_votes = WrapAdd(@, con_votes, U32_MODULUS),
                  ![d].pro_rounds_won =
                      IF pro_wins THEN WrapAdd(@, 1, U8_MODULUS) ELSE @,
                  ![d].con_rounds_won =
                      IF con_wins THEN WrapAdd(@, 1, U8_MODULUS) ELSE @]
            /\ last' = call("Ok")
            /\ UNCHANGED <<overflow_checks, platform, bet, user, lamports>>

\* The amounts settle_debate computes: total_pool = stake_amount * 2 in u64,
\* platform_fee = (total_pool as u128 * fee_bps / 10000) as u64,
\* winner_payout = total_pool - platform_fee.
TotalPool(stake_amount) == WrapMul(stake_amount, 2, U64_MODULUS)
PlatformFee(stake_amount, fee_bps) ==
    AsU64(MulDivBps(TotalPool(stake_amount), fee_bps))
WinnerPayout(stake_amount, fee_bps) ==
    WrapSub(TotalPool(stake_amount), PlatformFee(stake_amount, fee_bps),
            U64_MODULUS)

\* The escrow, winner and treasury accounts of SettleDebate are unchecked
\* AccountInfo and `authority` is any Signer: the accounts struct states no
\* has_one, seeds or address constraint.  The handler requires InProgress,
\* writes status, winner and completed_at, then moves winner_payout from
\* `escrow` to `winner_account` and platform_fee from `escrow` to `treasury`
\* with plain -= and += on the lamports.
settle_debate(authority, d, winner, escrow, winner_account, treasury, now) ==
    LET call(r) == Call("settle_debate", authority, d, r)
        deb == debate[d]
        fee == PlatformFee(deb.stake_amount, platform.platform_fee_bps)
        payout == WinnerPayout(deb.stake_amount, platform.platform_fee_bps)
        l1 == Debit(lamports, escrow, payout)
        l2 == Credit(l1, winner_account, payout)
        l3 == Debit(l2, escrow, fee)
        l4 == Credit(l3, treasury, fee)
        panics ==
            \/ MulOverflows(deb.stake_amount, 2, U64_MODULUS)
            \/ SubOverflows(TotalPool(deb.stake_amount), fee)
            \/ SubOverflows(lamports[escrow], payout)
            \/ AddOverflows(l1[winner_account], payout, U64_MODULUS)
            \/ SubOverflows(l2[escrow], fee)
            \/ AddOverflows(l3[treasury], fee, U64_MODULUS)
    IN  IF deb = NoAccount THEN Fail(call("AccountNotInitialized"))
        ELSE IF ~SettleAllowed(deb) THEN Fail(call("InvalidDebateStatus"))
        ELSE IF overflow_checks /\ panics THEN Fail(call("Panic"))
        ELSE
            /\ debate' = [debate EXCEPT ![d].status = "Completed",
                                        ![d].winner = Some(winner),
                                        ![d].completed_at = Some(now)]
            /\ lamports' = l4
            /\ last' = call("Ok")
            /\ UNCHANGED <<overflow_checks, platform, bet, user>>

\* place_bet: PlaceBet creates the bet PDA (seeds = debate, bettor) with
\* `init`, which fails when the bet exists; `escrow` is an unchecked
\* AccountInfo.  The handler requires amount > 0 and status Pending, records
\* the bet unsettled, transfers `amount` from the bettor to `escrow` and adds
\* it to user.total_wagered.
place_bet(bettor, d, side, amount, escrow) ==
    LET call(r) == Call("place_bet", bettor, d, r)
    IN  IF debate[d] = NoAccount THEN Fail(call("AccountNotInitialized"))
        ELSE IF ~BetInit(d, bettor) THEN Fail(call("AccountAlreadyInUse"))
        ELSE IF ~(amount > 0) THEN Fail(call("InvalidBetAmount"))
        ELSE IF ~BettingOpen(debate[d]) THEN Fail(call("BettingClosed"))
        ELSE IF ~CanTransfer(lamports, bettor, escrow, amount)
            THEN Fail(call("InsufficientFunds"))
        ELSE IF overflow_checks
                /\ AddOverflows(user[bettor].total_wagered, amount, U64_MODULUS)
            THEN Fail(call("Panic"))
        ELSE
            /\ bet' = [bet EXCEPT ![<<d, bettor>>] =
                    [side |-> side, amount |-> amount,
                     settled |-> FALSE, payout |-> 0]]
            /\ lamports' = Transfer(lamports, bettor, escrow, amount)
            /\ user' = [user EXCEPT ![bettor].total_wagered =
                            WrapAdd(@, amount, U64_MODULUS)]
            /\ last' = call("Ok")
            /\ UNCHANGED <<overflow_checks, platform, debate>>

\* The payout claim_bet computes for a winning bet:
\* (amount as u128 * 2 * (10000 - fee_bps as u128) / 10000) as u64.
BetPayout(amount, fee_bps) ==
    AsU64(MulDivBps(amount * 2, BPS_DENOMINATOR - fee_bps))

\* claim_bet with a slip in it: the part of the doubled bet that the payout
\* withholds is moved on to the platform's treasury at claim time.
claim_bet_fee_to_treasury(bettor, d, escrow) ==
    LET call(r) == Call("claim_bet", bettor, d, r)
        deb == debate[d]
        b == bet[<<d, bettor>>]
        won == BetWon(b, deb)
        payout == BetPayout(b.amount, platform.platform_fee_bps)
        withheld == AsU64(b.amount * 2) - payout
        l1 == Debit(lamports, escrow, payout)
        l2 == Credit(l1, bettor, payout)
        l3 == Debit(l2, escrow, withheld)
        l4 == Credit(l3, platform.treasury, withheld)
        panics ==
            /\ won
            /\ \/ SubOverflows(lamports[escrow], payout)
               \/ AddOverflows(l1[bettor], payout, U64_MODULUS)
               \/ SubOverflows(l2[escrow], withheld)
               \/ AddOverflows(l3[platform.treasury], withheld, U64_MODULUS)
               \/ AddOverflows(user[bettor].total_won, payout, U64_MODULUS)
    IN  IF deb = NoAccount \/ b = NoAccount
            THEN Fail(call("AccountNotInitialized"))
        ELSE IF ~ClaimAllowed(deb) THEN Fail(call("DebateNotCompleted"))
        ELSE IF ~NotSettled(b) THEN Fail(call("BetAlreadySettled"))
        ELSE IF deb.winner = None THEN Fail(call("NoWinner"))
        ELSE IF overflow_checks /\ panics THEN Fail(call("Panic"))
        ELSE
            /\ bet' = [bet EXCEPT ![<<d, bettor>>].settled = TRUE,
                                  ![<<d, bettor>>].payout =
                                      IF won THEN payout ELSE @]
            /\ lamports' = IF won THEN l4 ELSE lamports
            /\ user' = [user EXCEPT ![bettor].total_won =
                            IF won THEN WrapAdd(@, payout, U64_MODULUS) ELSE @]
            /\ last' = call("Ok")
            /\ UNCHANGED <<overflow_checks, platform, debate>>

\* claim_bet: ClaimBet takes the bet PDA of (debate, bettor), has_one bettor;
\* `escrow` is an unchecked AccountInfo.  The handler requires Completed and
\* an unsettled bet, sets settled, and for a bet on the winning side records
\* the payout and moves it from `escrow` to the bettor with plain -= and +=,
\* then adds it to user.total_won.
claim_bet(bettor, d, escrow) ==
    LET call(r) == Call("claim_bet", bettor, d, r)
        deb == debate[d]
        b == bet[<<d, bettor>>]
        won == BetWon(b, deb)
        payout == BetPayout(b.amount, platform.platform_fee_bps)
        l1 == Debit(lamports, escrow, payout)
        l2 == Credit(l1, bettor, payout)
        panics ==
            /\ won
            /\ \/ SubOverflows(lamports[escrow], payout)
               \/ AddOverflows(l1[bettor], payout, U64_MODULUS)
               \/ AddOverflows(user[bettor].total_won, payout, U64_MODULUS)
    IN  IF deb = NoAccount \/ b = NoAccount
            THEN Fail(call("AccountNotInitialized"))
        ELSE IF ~ClaimAllowed(deb) THEN Fail(call("DebateNotCompleted"))
        ELSE IF ~NotSettled(b) THEN Fail(call("BetAlreadySettled"))
        ELSE IF deb.winner = None THEN Fail(call("NoWinner"))
        ELSE IF overflow_checks /\ panics THEN Fail(call("Panic"))
        ELSE
            /\ bet' = [bet EXCEPT ![<<d, bettor>>].settled = TRUE,
                                  ![<<d, bettor>>].payout =
                                      IF won THEN payout ELSE @]
            /\ lamports' = IF won THEN l2 ELSE lamports
            /\ user' = [user EXCEPT ![bettor].total_won =
                            IF won THEN WrapAdd(@, payout, U64_MODULUS) ELSE @]
            /\ last' = call("Ok")
            /\ UNCHANGED <<overflow_checks, platform, debate>>

----------------------------------------------------------------------------
\* The inputs explored.  One contest, created by alice (pro) and bob (con).
\* A privileged instruction is signed by the platform authority or by
\* someone else (alice).  An unchecked escrow slot is handed the contest's
\* escrow PDA or another escrow account: alice and whoever settles hand it
\* either, bob always the contest's own.  The unchecked treasury slot is
\* handed the platform treasury or another account; the payee of a
\* settlement is the owner of the side declared the winner.
SpecDebates == {"d1"}
Callers == {"admin", "alice"}
EscrowSlots == {Escrow(d) : d \in DebateIds}
BettorEscrowSlots(b, d) == IF b = "alice" THEN EscrowSlots ELSE {Escrow(d)}
TreasurySlots == {"treasury", "admin"}
Payee(winner) == IF winner = "Pro" THEN "alice" ELSE "bob"

\* Keeps the advisory vote totals of the explored reports within MaxVotes.
VotesWithinBound(d, pro_votes, con_votes) ==
    debate[d] # NoAccount =>
        debate[d].total_pro_votes + pro_votes
            + debate[d].total_con_votes + con_votes <= MaxVotes

Create ==
    \E d \in SpecDebates, s \in StakeChoices :
        create_debate(d, "alice", "bob", s)

Start ==
    \E a \in Callers, d \in SpecDebates, t \in Times :
        start_debate(a, d, t)

ReportRound ==
    \E a \in Callers, d \in SpecDebates, r \in RoundChoices,
       pv \in VoteChoices, cv \in VoteChoices :
        /\ VotesWithinBound(d, pv, cv)
        /\ submit_round_result(a, d, r, pv, cv)

Settle ==
    \E a \in Callers, d \in SpecDebates, w \in Positions, e \in EscrowSlots,
       tr \in TreasurySlots, t \in Times :
        settle_debate(a, d, w, e, Payee(w), tr, t)

PlaceBet ==
    \E b \in Bettors, d \in SpecDebates, s \in Positions, amt \in BetChoices :
        \E e \in BettorEscrowSlots(b, d) :
            place_bet(b, d, s, amt, e)

Claim ==
    \E b \in Bettors, d \in SpecDebates :
        \E e \in BettorEscrowSlots(b, d) :
            claim_bet(b, d, e)

Next == Create \/ Start \/ ReportRound \/ Settle \/ PlaceBet \/ Claim

Spec == Init /\ [][Next]_vars

\* The round reports explored for the aggregation: tallies large enough for
\* a few reports to carry a vote total or a rounds-won counter past the end
\* of its word.
WideVoteChoices == {0, 3, 5}

ReportRounds ==
    \E a \in Callers, d \in SpecDebates, r \in RoundChoices,
       pv \in WideVoteChoices, cv \in WideVoteChoices :
        submit_round_result(a, d, r, pv, cv)

NextRounds == Create \/ Start \/ ReportRounds

SpecRounds == Init /\ [][NextRounds]_vars

\* The bets explored for the width of the payout: alice holds enough to bet
\* WideBet, five eighths of the word, whose payout of 2 * (10000 - fee_bps) /
\* 10000 times the amount is past the end of the word at any fee the
\* platform accepts.
WideBet == (U64_MODULUS \div 8) * 5
WideBetChoices == {17, WideBet}

InitWide ==
    /\ overflow_checks \in BOOLEAN
    /\ \E fee \in FeeChoices :
          /\ fee <= MAX_FEE_BPS
          /\ platform = [authority |-> "admin", treasury |-> "treasury",
                         platform_fee_bps |-> fee, total_debates |-> 0]
    /\ debate = [d \in DebateIds |-> NoAccount]
    /\ bet = [k \in DebateIds \X Bettors |-> NoAccount]
    /\ user = [b \in Bettors |-> [total_wagered |-> 0, total_won |-> 0]]
    /\ lamports = [a \in Accounts |->
                      IF a = "alice" THEN WideBet + InitialFunds
                      ELSE IF a \in Owners THEN InitialFunds ELSE 0]
    /\ last = Call("initialize", "admin", "-", "Ok")

PlaceWideBet ==
    \E b \in Bettors, d \in SpecDebates, s \in Positions,
       amt \in WideBetChoices :
        place_bet(b, d, s, amt, Escrow(d))

NextWide == Create \/ Start \/ Settle \/ PlaceWideBet \/ Claim

SpecWide == InitWide /\ [][NextWide]_vars

\* Two contests side by side, both created by alice and bob and run by the
\* platform authority; alice bets on either and hands each unchecked escrow
\* slot the escrow PDA of either contest.
TwoStake == 7
TwoBet == 17

CreateTwo ==
    \E d \in DebateIds : create_debate(d, "alice", "bob", TwoStake)

StartTwo ==
    \E d \in DebateIds, t \in Times : start_debate(platform.authority, d, t)

SettleTwo ==
    \E d \in DebateIds, w \in Positions, e \in EscrowSlots :
        settle_debate(platform.authority, d, w, e, Payee(w),
                      platform.treasury, 2)

PlaceBetTwo ==
    \E d \in DebateIds, s \in Positions, e \in EscrowSlots :
        place_bet("alice", d, s, TwoBet, e)

ClaimTwo ==
    \E d \in DebateIds, e \in EscrowSlots : claim_bet("alice", d, e)

NextTwo == CreateTwo \/ StartTwo \/ SettleTwo \/ PlaceBetTwo \/ ClaimTwo

SpecTwo == Init /\ [][NextTwo]_vars

----------------------------------------------------------------------------
\* Quantities the properties below speak of.

Exists(d) == debate[d] # NoAccount
HasBet(d, b) == bet[<<d, b>>] # NoAccount

RECURSIVE Sum(_, _)
Sum(f, S) ==
    IF S = {} THEN 0
    ELSE LET x == CHOOSE y \in S : TRUE
         IN  f[x] + Sum(f, S \ {x})

\* The amounts bet on a contest and the payouts recorded on its bets.
BetAmounts(d) == [b \in Bettors |-> IF HasBet(d, b) THEN bet[<<d, b>>].amount ELSE 0]
BetPayouts(d) == [b \in Bettors |-> IF HasBet(d, b) THEN bet[<<d, b>>].payout ELSE 0]

\* The exact fee and payout of a settlement, over the integers.
ExactFee(stake_amount, fee_bps) == (2 * stake_amount * fee_bps) \div BPS_DENOMINATOR
ExactPayout(stake_amount, fee_bps) == 2 * stake_amount - ExactFee(stake_amount, fee_bps)

\* The exact payout of a winning bet, over the integers.
ExactBetPayout(amount, fee_bps) == MulDivBps(2 * amount, BPS_DENOMINATOR - fee_bps)

\* The bet of b on d is an unsettled bet on the declared winner of a
\* Completed contest.
WinningClaimDue(d, b) ==
    /\ Exists(d)
    /\ HasBet(d, b)
    /\ debate[d].status = "Completed"
    /\ debate[d].winner = Some(bet[<<d, b>>].side)
    /\ ~bet[<<d, b>>].settled

Succeeded(op) == last'.op = op /\ last'.result = "Ok"

\* The total amount bet on a side of a contest.
SidePool(d, side) ==
    Sum([b \in Bettors |->
            IF HasBet(d, b) /\ bet[<<d, b>>].side = side
            THEN bet[<<d, b>>].amount ELSE 0], Bettors)

----------------------------------------------------------------------------
\* C1.  The escrow balance of a contest is never taken below zero: no
\* Settle or Claim on a contest debits its escrow by more than it holds.  On
\* the unsigned balance a debit below zero shows as the balance going up
\* (by 2^w minus the shortfall), so the property is that a Settle or Claim on
\* a contest never leaves its escrow holding more than before.
C1_EscrowNeverBelowZero ==
    [][\A d \in DebateIds :
          (last'.op \in {"settle_debate", "claim_bet"} /\ last'.debate = d)
              => lamports'[Escrow(d)] <= lamports[Escrow(d)]]_vars

\* C2.  A Claim on a winning bet whose payout exceeds the balance of the
\* escrow account it draws on fails and changes no account: the bet stays
\* unsettled with payout 0, the escrow and the bettor keep their balances.
C2_InsufficientClaimFails ==
    [][\A d \in DebateIds, b \in Bettors, e \in EscrowSlots :
          (/\ last'.op = "claim_bet"
           /\ WinningClaimDue(d, b)
           /\ BetPayout(bet[<<d, b>>].amount, platform.platform_fee_bps)
                 > lamports[e]
           /\ claim_bet(b, d, e))
              => (last'.result # "Ok" /\ UNCHANGED accounts)]_vars

\* C3.  The escrow balance of a contest equals its two stakes plus the
\* amounts of the bets placed on it, minus the settlement payout and fee once
\* it is settled, minus the payouts of its claimed bets.
C3_EscrowEqualsInMinusOut ==
    \A d \in DebateIds :
        Exists(d) =>
            lamports[Escrow(d)] =
                2 * debate[d].stake_amount
                + Sum(BetAmounts(d), Bettors)
                - (IF debate[d].status = "Completed"
                   THEN ExactPayout(debate[d].stake_amount, platform.platform_fee_bps)
                        + ExactFee(debate[d].stake_amount, platform.platform_fee_bps)
                   ELSE 0)
                - Sum(BetPayouts(d), Bettors)

\* C4.  A successful Settle credits the payee with 2*stake - floor(2*stake*
\* fee_bps/10000), credits the platform treasury with floor(2*stake*fee_bps/
\* 10000), debits the contest's escrow by their sum, and the sum is 2*stake.
C4_SettleMovesExactAmounts ==
    [][\A d \in DebateIds :
          (Succeeded("settle_debate") /\ last'.debate = d) =>
              LET stake == debate[d].stake_amount
                  fee == ExactFee(stake, platform.platform_fee_bps)
                  payout == ExactPayout(stake, platform.platform_fee_bps)
                  payee == Payee(debate'[d].winner[1])
              IN  /\ payout + fee = 2 * stake
                  /\ lamports'[payee] = lamports[payee] + payout
                  /\ lamports'[platform.treasury] = lamports[platform.treasury] + fee
                  /\ lamports'[Escrow(d)] = lamports[Escrow(d)] - (payout + fee)]_vars

\* C5.  Settle succeeds at most once per contest: a Settle on a Completed
\* contest never succeeds, and a Settle that fails changes no account (the
\* escrow, payee and treasury balances, the winner and completed_at stay).
C5_SettleAtMostOnce ==
    [][last'.op = "settle_debate" =>
          IF last'.result = "Ok"
          THEN debate[last'.debate].status # "Completed"
          ELSE UNCHANGED accounts]_vars

\* A second Settle was attempted on the Completed contest and rejected.
C5_Witness ==
    /\ last.op = "settle_debate"
    /\ last.result = "InvalidDebateStatus"
    /\ Exists("d1")
    /\ debate["d1"].status = "Completed"

\* C6.  Each bet is paid at most once: a Claim succeeds only on an unsettled
\* bet and leaves it settled; a Claim that fails changes no account; and a
\* settled bet never changes again (settled stays true, payout keeps the
\* value the first claim gave it).
C6_ClaimAtMostOnce ==
    [][/\ last'.op = "claim_bet" =>
            IF last'.result = "Ok"
            THEN /\ ~bet[<<last'.debate, last'.signer>>].settled
                 /\ bet'[<<last'.debate, last'.signer>>].settled
            ELSE UNCHANGED accounts
       /\ \A k \in DebateIds \X Bettors :
            (bet[k] # NoAccount /\ bet[k].settled) => bet'[k] = bet[k]]_vars

\* A paid bet was claimed a second time and the claim was rejected.
C6_Witness ==
    /\ last.op = "claim_bet"
    /\ last.result = "BetAlreadySettled"
    /\ \E k \in DebateIds \X Bettors :
          bet[k] # NoAccount /\ bet[k].settled /\ bet[k].payout > 0

\* C7.  A Settle signed by anyone but the platform's authority fails and
\* changes no account.
C7_SettleAuthorizedOnly ==
    [][(last'.op = "settle_debate" /\ last'.signer # platform.authority)
          => (last'.result # "Ok" /\ UNCHANGED accounts)]_vars

\* C8.  A Start or ReportRound signed by anyone but the platform's authority
\* fails and changes no account: only the authority's calls succeed, and a
\* failed call leaves status, started_at, vote totals and round counters.
C8_StartAndReportAuthorizedOnly ==
    [][(last'.op \in {"start_debate", "submit_round_result"}
            /\ last'.signer # platform.authority)
          => (last'.result # "Ok" /\ UNCHANGED accounts)]_vars

\* Someone else than the authority tried to start a Pending contest and was
\* rejected for it.
C8_Witness ==
    /\ last.op = "start_debate"
    /\ last.result = "ConstraintHasOne"
    /\ Exists("d1")
    /\ debate["d1"].status = "Pending"

\* C9.  A bettor has at most one bet per contest: a PlaceBet succeeds only
\* where the bettor has no bet on the contest, a PlaceBet that fails changes
\* no account, and no PlaceBet changes a bet that exists.
C9_OneBetPerBettor ==
    [][last'.op = "place_bet" =>
          /\ IF last'.result = "Ok"
             THEN ~HasBet(last'.debate, last'.signer)
             ELSE UNCHANGED accounts
          /\ \A k \in DebateIds \X Bettors :
                bet[k] # NoAccount => bet'[k] = bet[k]]_vars

\* A bettor with a bet on the contest placed a second one, still Pending,
\* and was rejected.
C9_Witness ==
    /\ last.op = "place_bet"
    /\ last.result = "AccountAlreadyInUse"
    /\ Exists("d1")
    /\ debate["d1"].status = "Pending"
    /\ \E b \in Bettors : HasBet("d1", b)

\* C10.  PlaceBet succeeds only while the contest is Pending, a PlaceBet that
\* fails changes no account, and from Start onward the bets of the contest
\* and their amounts are frozen.
C10_BetsOnlyWhilePending ==
    [][/\ last'.op = "place_bet" =>
            IF last'.result = "Ok"
            THEN debate[last'.debate].status = "Pending"
            ELSE UNCHANGED accounts
       /\ \A d \in DebateIds :
            (Exists(d) /\ debate[d].status # "Pending") =>
                /\ \A b \in Bettors : HasBet(d, b)' = HasBet(d, b)
                /\ BetAmounts(d)' = BetAmounts(d)]_vars

\* A bet was placed on a started contest by a bettor without one and was
\* rejected as closed.
C10_Witness ==
    /\ last.op = "place_bet"
    /\ last.result = "BettingClosed"
    /\ Exists("d1")
    /\ debate["d1"].status = "InProgress"

\* C11.  The winner of a contest is set exactly when the contest is
\* Completed: in every reachable state, winner is Some if and only if status
\* is Completed.
C11_WinnerIffCompleted ==
    \A d \in DebateIds :
        Exists(d) => (debate[d].winner # None <=> debate[d].status = "Completed")

\* A contest was settled for a side and a Start on it was then rejected.
C11_Witness ==
    /\ Exists("d1")
    /\ debate["d1"].status = "Completed"
    /\ debate["d1"].winner = Some("Con")
    /\ last.op = "start_debate"
    /\ last.result = "InvalidDebateStatus"

\* C12.  started_at is set exactly when the contest is InProgress or
\* Completed, and started_at and completed_at are each written at most once:
\* once Some, the value never changes.
C12_StartedAtOnce ==
    [][\A d \in DebateIds :
          Exists(d)' =>
              /\ debate'[d].started_at # None
                    <=> debate'[d].status \in {"InProgress", "Completed"}
              /\ (Exists(d) /\ debate[d].started_at # None)
                    => debate'[d].started_at = debate[d].started_at
              /\ (Exists(d) /\ debate[d].completed_at # None)
                    => debate'[d].completed_at = debate[d].completed_at]_vars

\* A contest started at time 1 and settled at time 2 keeps both stamps when
\* a later Settle at another time is rejected.
C12_Witness ==
    /\ Exists("d1")
    /\ debate["d1"].started_at = Some(1)
    /\ debate["d1"].completed_at = Some(2)
    /\ last.op = "settle_debate"
    /\ last.result = "InvalidDebateStatus"

\* C17.  The status of a contest changes only from Pending to InProgress, by
\* a successful Start, and from InProgress to Completed, by a successful
\* Settle; a Start on a contest that is not Pending and a Settle on a contest
\* that is not InProgress fail and change no account; a contest is never
\* Cancelled and never ceases to exist.
C17_StatusTransitions ==
    [][/\ \A d \in DebateIds :
            Exists(d) =>
                /\ Exists(d)'
                /\ debate'[d].status # "Cancelled"
                /\ debate'[d].status # debate[d].status =>
                      \/ /\ debate[d].status = "Pending"
                         /\ debate'[d].status = "InProgress"
                         /\ Succeeded("start_debate")
                         /\ last'.debate = d
                      \/ /\ debate[d].status = "InProgress"
                         /\ debate'[d].status = "Completed"
                         /\ Succeeded("settle_debate")
                         /\ last'.debate = d
       /\ last'.op = "start_debate" =>
            IF last'.result = "Ok"
            THEN debate[last'.debate].status = "Pending"
            ELSE UNCHANGED accounts
       /\ last'.op = "settle_debate" =>
            IF last'.result = "Ok"
            THEN debate[last'.debate].status = "InProgress"
            ELSE UNCHANGED accounts]_vars

\* A Settle on a contest still Pending was rejected.
C17_Witness ==
    /\ Exists("d1")
    /\ debate["d1"].status = "Pending"
    /\ last.op = "settle_debate"
    /\ last.result = "InvalidDebateStatus"

\* C18.  A bet is created only while its contest is Pending and settled only
\* once its contest is Completed: a settled bet belongs to a Completed
\* contest, a bet with payout > 0 is settled and on the declared winner's
\* side, a Claim succeeds only on a Completed contest, and a Claim that fails
\* changes no account.
C18_BetLifecycle ==
    [][/\ \A d \in DebateIds, b \in Bettors :
            /\ (~HasBet(d, b) /\ HasBet(d, b)') => debate[d].status = "Pending"
            /\ HasBet(d, b)' =>
                  /\ bet'[<<d, b>>].settled => debate'[d].status = "Completed"
                  /\ bet'[<<d, b>>].payout > 0 =>
                        /\ bet'[<<d, b>>].settled
                        /\ debate'[d].winner = Some(bet'[<<d, b>>].side)
       /\ last'.op = "claim_bet" =>
            IF last'.result = "Ok"
            THEN debate[last'.debate].status = "Completed"
            ELSE UNCHANGED accounts]_vars

\* A Claim on a started, unsettled contest was rejected, and a bet on the
\* contest is still unsettled.
C18_Witness ==
    /\ Exists("d1")
    /\ debate["d1"].status = "InProgress"
    /\ last.op = "claim_bet"
    /\ last.result = "DebateNotCompleted"
    /\ \E b \in Bettors : HasBet("d1", b) /\ ~bet[<<"d1", b>>].settled

\* C13.  A successful Claim on a bet on the declared winner's side records
\* floor(amount * 2 * (10000 - fee_bps) / 10000) in bet.payout, credits the
\* bettor with it and debits the contest's escrow by it; a successful Claim on
\* a bet on the losing side sets settled, leaves payout 0 and leaves every
\* balance as it was.
C13_ClaimPaysExactly ==
    [][\A d \in DebateIds, b \in Bettors :
          (Succeeded("claim_bet") /\ last'.debate = d /\ last'.signer = b) =>
              LET k == <<d, b>>
                  x == ExactBetPayout(bet[k].amount, platform.platform_fee_bps)
              IN  /\ bet'[k].settled
                  /\ IF debate[d].winner = Some(bet[k].side)
                     THEN /\ bet'[k].payout = x
                          /\ lamports'[b] = lamports[b] + x
                          /\ lamports'[Escrow(d)] = lamports[Escrow(d)] - x
                     ELSE /\ bet'[k].payout = 0
                          /\ lamports' = lamports]_vars

\* C14.  The totals of a contest are the sums of its accepted reports: a
\* contest starts with all four at 0, an accepted ReportRound of (pro_votes,
\* con_votes) adds pro_votes to total_pro_votes and con_votes to
\* total_con_votes, adds 1 to pro_rounds_won when pro_votes > con_votes and to
\* con_rounds_won when con_votes > pro_votes (a tie adds to neither), whatever
\* rounds were reported before, and nothing else changes them.
C14_TotalsAreSumsOfReports ==
    [][\A d \in DebateIds :
          /\ (~Exists(d) /\ Exists(d)') =>
                /\ debate'[d].total_pro_votes = 0
                /\ debate'[d].total_con_votes = 0
                /\ debate'[d].pro_rounds_won = 0
                /\ debate'[d].con_rounds_won = 0
          /\ (Exists(d) /\ ~(Succeeded("submit_round_result") /\ last'.debate = d)) =>
                /\ debate'[d].total_pro_votes = debate[d].total_pro_votes
                /\ debate'[d].total_con_votes = debate[d].total_con_votes
                /\ debate'[d].pro_rounds_won = debate[d].pro_rounds_won
                /\ debate'[d].con_rounds_won = debate[d].con_rounds_won
          /\ \A a \in Callers, r \in RoundChoices,
                pv \in WideVoteChoices, cv \in WideVoteChoices :
                (/\ Succeeded("submit_round_result")
                 /\ last'.debate = d
                 /\ submit_round_result(a, d, r, pv, cv)) =>
                    /\ debate'[d].total_pro_votes = debate[d].total_pro_votes + pv
                    /\ debate'[d].total_con_votes = debate[d].total_con_votes + cv
                    /\ debate'[d].pro_rounds_won =
                          debate[d].pro_rounds_won + (IF pv > cv THEN 1 ELSE 0)
                    /\ debate'[d].con_rounds_won =
                          debate[d].con_rounds_won + (IF cv > pv THEN 1 ELSE 0)]_vars

\* C15.  A ReportRound that would carry a vote total past the largest value
\* of its u32, or a rounds-won counter past the largest value of its u8,
\* fails and changes no account, and no total or counter ever becomes
\* smaller.
C15_ReportOverflowFails ==
    [][\A d \in DebateIds :
          Exists(d) =>
              /\ debate'[d].total_pro_votes >= debate[d].total_pro_votes
              /\ debate'[d].total_con_votes >= debate[d].total_con_votes
              /\ debate'[d].pro_rounds_won >= debate[d].pro_rounds_won
              /\ debate'[d].con_rounds_won >= debate[d].con_rounds_won
              /\ \A a \in Callers, r \in RoundChoices,
                    pv \in WideVoteChoices, cv \in WideVoteChoices :
                    (/\ last'.op = "submit_round_result"
                     /\ submit_round_result(a, d, r, pv, cv)
                     /\ \/ debate[d].total_pro_votes + pv >= U32_MODULUS
                        \/ debate[d].total_con_votes + cv >= U32_MODULUS
                        \/ pv > cv /\ debate[d].pro_rounds_won + 1 >= U8_MODULUS
                        \/ cv > pv /\ debate[d].con_rounds_won + 1 >= U8_MODULUS)
                        => (last'.result # "Ok" /\ UNCHANGED accounts)]_vars

\* C16.  Settle and Claim move the exact value of their formulas or nothing:
\* a successful Settle credits the payee with 2*stake - floor(2*stake*
\* fee_bps/10000), a successful Claim on a winning bet records and credits
\* floor(amount*2*(10000-fee_bps)/10000), and where 2*stake or that payout
\* does not fit the 64-bit word the instruction fails and changes no account.
C16_ExactOrAbort ==
    [][\A d \in DebateIds :
          /\ (last'.op = "settle_debate" /\ Exists(d)
                /\ \E a \in Callers, w \in Positions, e \in EscrowSlots,
                      tr \in TreasurySlots, t \in Times :
                        settle_debate(a, d, w, e, Payee(w), tr, t)) =>
                IF last'.result = "Ok"
                THEN LET payee == Payee(debate'[d].winner[1])
                     IN  lamports'[payee] - lamports[payee] =
                            ExactPayout(debate[d].stake_amount,
                                        platform.platform_fee_bps)
                ELSE UNCHANGED accounts
          /\ \A b \in Bettors :
                (/\ last'.op = "claim_bet"
                 /\ WinningClaimDue(d, b)
                 /\ \E e \in EscrowSlots : claim_bet(b, d, e)) =>
                    LET x == ExactBetPayout(bet[<<d, b>>].amount,
                                            platform.platform_fee_bps)
                    IN  IF last'.result = "Ok"
                        THEN /\ x <= U64_MAX
                             /\ bet'[<<d, b>>].payout = x
                             /\ lamports'[b] - lamports[b] = x
                        ELSE UNCHANGED accounts]_vars

\* C19.  Claims on different bets of a contest behave as in a serial order:
\* once one winning bet of the contest has been paid, a Claim on another
\* winning bet, drawn on the contest's escrow, succeeds only if the escrow
\* still holds its payout and then leaves the escrow lower by exactly that
\* payout, and otherwise fails and changes no account.  So two claims never
\* both succeed on a balance that covers one, and the balance after them is
\* the balance before minus the payouts of the claims that succeeded.
C19_ClaimsSerialize ==
    [][\A d \in DebateIds, b1 \in Bettors, b2 \in Bettors :
          (/\ b1 # b2
           /\ last'.op = "claim_bet"
           /\ HasBet(d, b1)
           /\ bet[<<d, b1>>].settled
           /\ bet[<<d, b1>>].payout > 0
           /\ WinningClaimDue(d, b2)
           /\ claim_bet(b2, d, Escrow(d))) =>
              LET p2 == BetPayout(bet[<<d, b2>>].amount, platform.platform_fee_bps)
              IN  IF last'.result = "Ok"
                  THEN /\ lamports[Escrow(d)] >= p2
                       /\ lamports'[Escrow(d)] = lamports[Escrow(d)] - p2
                  ELSE UNCHANGED accounts]_vars

\* C20.  When the amounts bet on the two sides of a contest are equal, every
\* Claim on a winning bet, drawn on the contest's escrow, succeeds, whatever
\* claims came before it, and finds the escrow holding at least its payout
\* (the balance never goes below zero).
C20_BalancedPoolsPayAll ==
    [][\A d \in DebateIds, b \in Bettors :
          (/\ last'.op = "claim_bet"
           /\ WinningClaimDue(d, b)
           /\ SidePool(d, "Pro") = SidePool(d, "Con")
           /\ claim_bet(b, d, Escrow(d))) =>
              /\ last'.result = "Ok"
              /\ lamports[Escrow(d)] >=
                    BetPayout(bet[<<d, b>>].amount, platform.platform_fee_bps)]_vars

\* C21.  The escrows of two contests are isolated: a PlaceBet, Settle or
\* Claim on a contest leaves the escrow balance of every other contest that
\* exists as it was.
C21_EscrowIsolation ==
    [][\A d \in DebateIds, other \in DebateIds :
          (/\ other # d
           /\ Exists(other)
           /\ last'.op \in {"place_bet", "settle_debate", "claim_bet"}
           /\ last'.debate = d) =>
              lamports'[Escrow(other)] = lamports[Escrow(other)]]_vars

====
